---- MODULE Spec2Model ----
(***************************************************************************)
(* AeroShield backend: the claim lifecycle (ClaimsEngine) coupled to the   *)
(* liquidity pool's accounting (PoolManager), the policy routes and the    *)
(* FDC webhook.  Amounts are Decimals in the source; here they are         *)
(* integers counted in the smallest currency unit.                         *)
(*                                                                         *)
(* The specifications share the variables:                                 *)
(*   SpecPool  the pool ledger alone, called sequentially;                 *)
(*   Spec      the engine, the routes and the webhook, one whole handler   *)
(*             per step (sequential executions);                           *)
(*   SpecConc  handlers running as concurrent tasks, each in its own       *)
(*             database session, one step per await;                       *)
(*   SpecPoll  one oracle verification, one step per await, with the       *)
(*             polling loop and its clock (SpecPollFair: with fairness);   *)
(*   SpecAuto  auto_process_claim as the only claim operation;             *)
(*   SpecHealth  the pool queries applied to pool rows drawn around the    *)
(*             thresholds of check_pool_health;                            *)
(*   SpecRead  Spec together with the three queries;                       *)
(*   SpecNumbered  claim initiation with claim numbers, two policies;      *)
(*   SpecFlight  flight-status updates over policies with their own        *)
(*             thresholds;                                                 *)
(*   SpecRoutes  the policy routes as concurrent tasks.                    *)
(***************************************************************************)
EXTENDS Integers, Sequences, FiniteSets, TLC

\* ---------------------------------------------------------------- bounds
MaxNegAmount == 1
MaxAmount == 2
MaxCredits == 3
MaxDebits == 3
MaxDeposits == 2
MaxDelay == 2

Amounts == (0 - MaxNegAmount)..MaxAmount
Delays == 0..MaxDelay

\* ------------------------------------------------------------- variables
VARIABLES
    pool,       \* the InsurancePool row (committed state)
    policies,   \* policy id -> Policy row (committed state)
    claims,     \* sequence of Claim rows; a claim's id is its index
    last,       \* the last completed call: operation, inputs, outcome
    tasks       \* SpecConc: task id -> the handler it runs, its session

vars == <<pool, policies, claims, last, tasks>>

\* ------------------------------------------------------------------ pool
\* PoolManager.min_collateralization_ratio, in percent.
min_collateralization_ratio == 150

\* InsurancePool column defaults (a newly created pool).
NewPool ==
    [ collateralization_ratio  |-> min_collateralization_ratio,
      total_value_locked       |-> 0,
      total_premiums_collected |-> 0,
      total_payouts_made       |-> 0,
      stablecoin_reserve       |-> 0,
      fasset_reserve           |-> 0,
      total_policies_issued    |-> 0,
      total_claims_paid        |-> 0 ]

\* A credit that leaves the stablecoin reserve as it was.
deposit_premium_skips_reserve(p, amount) ==
    [ p EXCEPT !.total_value_locked       = @ + amount,
               !.total_premiums_collected = @ + amount,
               !.total_policies_issued    = @ + 1 ]

\* PoolManager.deposit_premium, "Update pool totals".
deposit_premium(p, amount) ==
    [ p EXCEPT !.total_value_locked       = @ + amount,
               !.total_premiums_collected = @ + amount,
               !.stablecoin_reserve       = @ + amount,
               !.total_policies_issued    = @ + 1 ]

\* A sufficiency check that lets a payout overdraw by one unit.
InsufficientFundsOffByOne(p, amount) == amount > p.stablecoin_reserve + 1

\* A sufficiency check that refuses a payout of the whole reserve.
InsufficientFundsStrict(p, amount) == amount >= p.stablecoin_reserve

\* PoolManager.process_payout, "Check sufficient funds".
InsufficientFunds(p, amount) == amount > p.stablecoin_reserve

\* A debit that leaves the total value locked as it was.
ApplyPayoutKeepsTVL(p, amount) ==
    [ p EXCEPT !.stablecoin_reserve = @ - amount,
               !.total_payouts_made = @ + amount,
               !.total_claims_paid  = @ + 1 ]

\* PoolManager.process_payout, "Update pool totals".
ApplyPayout(p, amount) ==
    [ p EXCEPT !.stablecoin_reserve = @ - amount,
               !.total_value_locked = @ - amount,
               !.total_payouts_made = @ + amount,
               !.total_claims_paid  = @ + 1 ]

\* A debit that skips the sufficiency check.
ProcessPayoutUnchecked(p, amount) ==
    [ ok |-> TRUE, err |-> "none", pool |-> ApplyPayout(p, amount) ]

\* PoolManager.process_payout on an existing pool: the error raised, or the
\* pool after the debit.
PoolManager_process_payout(p, amount) ==
    IF InsufficientFunds(p, amount)
    THEN [ ok |-> FALSE, err |-> "InsufficientFunds", pool |-> p ]
    ELSE [ ok |-> TRUE,  err |-> "none", pool |-> ApplyPayout(p, amount) ]

\* float(amount), float(available): the arguments of InsufficientFundsError.
\* A Python float keeps FloatDigits significant decimal digits of a Decimal;
\* a value with more digits is rounded to the nearest value that has them.
FloatDigits == 15

RECURSIVE Digits(_)
Digits(n) == IF n < 10 THEN 1 ELSE 1 + Digits(n \div 10)

RECURSIVE Pow10(_)
Pow10(k) == IF k = 0 THEN 1 ELSE 10 * Pow10(k - 1)

float(x) ==
    LET a == IF x < 0 THEN 0 - x ELSE x
        d == Digits(a)
    IN  IF d <= FloatDigits THEN x
        ELSE LET s == Pow10(d - FloatDigits)
                 r == ((a + (s \div 2)) \div s) * s
             IN IF x < 0 THEN 0 - r ELSE r

\* The factor that turns the utilization quotient into a percentage.
Percent == 100

\* check_pool_health: the utilization rate above which it warns, in percent.
MaxUtilization == 80

\* check_pool_health: the stablecoin reserve below which it warns.
MinReserve == 10000

\* PoolManager.get_pool_stats on pool row p.  utilization_rate is the
\* quotient pending_obligations / total_value_locked * 100, kept as the
\* fraction num / den (0 / 1 when the TVL is not > 0).
get_pool_stats(p) ==
    LET available == p.total_value_locked - p.total_payouts_made
        pending_obligations ==
            p.total_premiums_collected - p.total_payouts_made
    IN
    [ total_value_locked       |-> float(p.total_value_locked),
      total_premiums_collected |-> float(p.total_premiums_collected),
      total_payouts_made       |-> float(p.total_payouts_made),
      stablecoin_reserve       |-> float(p.stablecoin_reserve),
      fasset_reserve           |-> float(p.fasset_reserve),
      collateralization_ratio  |-> float(p.collateralization_ratio),
      total_policies_issued    |-> p.total_policies_issued,
      total_claims_paid        |-> p.total_claims_paid,
      utilization_rate         |->
          IF p.total_value_locked > 0
          THEN [ num |-> pending_obligations * Percent,
                 den |-> p.total_value_locked ]
          ELSE [ num |-> 0, den |-> 1 ],
      available_for_claims     |-> float(available) ]

\* check_pool_health, "Check collateralization".
LowCollateralization(stats) ==
    stats.collateralization_ratio < float(min_collateralization_ratio)

\* A utilization check that also warns at exactly the threshold.
HighUtilizationInclusive(stats) ==
    stats.utilization_rate.num >= MaxUtilization * stats.utilization_rate.den

\* check_pool_health, "Check utilization": utilization_rate > 80.
HighUtilization(stats) ==
    stats.utilization_rate.num > MaxUtilization * stats.utilization_rate.den

\* check_pool_health, "Check reserves".
LowReserves(stats) == stats.stablecoin_reserve < MinReserve

\* check_pool_health: the warnings list, in the order it is appended to.
Warnings(stats) ==
    (IF LowCollateralization(stats) THEN <<"collateralization">> ELSE << >>)
    \o (IF HighUtilization(stats) THEN <<"utilization">> ELSE << >>)
    \o (IF LowReserves(stats) THEN <<"reserves">> ELSE << >>)

\* check_pool_health: the risk level for a warnings list.
risk_level(warnings) ==
    IF Len(warnings) >= 2 THEN "high"
    ELSE IF Len(warnings) = 1 THEN "medium"
    ELSE "low"

\* PoolManager.check_pool_health on the stats of a pool that exists.
check_pool_health(stats) ==
    LET warnings == Warnings(stats) IN
    [ found                   |-> TRUE,
      is_healthy              |-> Len(warnings) = 0,
      collateralization_ratio |-> stats.collateralization_ratio,
      minimum_ratio           |-> float(min_collateralization_ratio),
      available_for_claims    |-> stats.available_for_claims,
      utilization_rate        |-> stats.utilization_rate,
      risk_level              |-> risk_level(warnings),
      warnings                |-> warnings ]

\* -------------------------------------------------------- the last call
NoCall ==
    [ op |-> "none", ok |-> TRUE, err |-> "none", raised |-> FALSE,
      claim |-> 0, policy |-> 0, amount |-> 0, before |-> "none",
      oracle |-> "none", valid |-> FALSE, delay |-> 0,
      required |-> 0, available |-> 0,
      user_id |-> 0, pool_id |-> 0, price_ok |-> FALSE,
      steps |-> << >>, result |-> [ found |-> FALSE ] ]

\* ------------------------------------------------------------- SpecPool
\* PoolManager.deposit_premium called on the pool.
CreditPremium(amount) ==
    /\ pool.total_policies_issued < MaxCredits
    /\ pool' = deposit_premium(pool, amount)
    /\ last' = [ NoCall EXCEPT !.op = "CreditPremium", !.amount = amount ]
    /\ UNCHANGED <<policies, claims, tasks>>

\* PoolManager.process_payout called on the pool; the caller commits what
\* the call left in the session.
DebitPayout(amount) ==
    /\ pool.total_claims_paid < MaxDebits
    /\ LET r == PoolManager_process_payout(pool, amount) IN
         /\ pool' = r.pool
         /\ last' = [ NoCall EXCEPT !.op = "DebitPayout", !.amount = amount,
                                    !.ok = r.ok, !.err = r.err,
                                    !.raised = ~r.ok,
                                    !.required = IF r.ok THEN 0
                                                 ELSE float(amount),
                                    !.available = IF r.ok THEN 0
                                        ELSE float(pool.stablecoin_reserve) ]
    /\ UNCHANGED <<policies, claims, tasks>>

InitPool ==
    /\ pool = NewPool
    /\ policies = << >>
    /\ claims = << >>
    /\ last = NoCall
    /\ tasks = << >>

NextPool ==
    \/ \E amount \in Amounts : CreditPremium(amount)
    \/ \E amount \in Amounts : DebitPayout(amount)

SpecPool == InitPool /\ [][NextPool]_vars

\* C4: from a reserve >= 0, a CreditPremium or DebitPayout call with an
\* amount > 0 leaves stablecoin_reserve >= 0 (so every state that such calls
\* reach from a new pool has stablecoin_reserve >= 0).
C4_ReserveNonNegative ==
    [][ ( /\ pool.stablecoin_reserve >= 0
          /\ last'.op \in {"CreditPremium", "DebitPayout"}
          /\ last'.amount > 0 )
        => pool'.stablecoin_reserve >= 0 ]_vars

\* A payout that took the whole reserve: the reserve is exactly 0.
C4_Witness ==
    /\ last.op = "DebitPayout" /\ last.ok /\ last.amount > 0
    /\ pool.stablecoin_reserve = 0
    /\ pool.total_payouts_made = pool.total_premiums_collected

\* C13: a DebitPayout whose amount equals the stablecoin reserve succeeds
\* and leaves the reserve at exactly 0; a DebitPayout whose amount is greater
\* than the reserve fails with InsufficientFunds carrying required = amount
\* and available = the reserve, and leaves every pool field (reserve, TVL,
\* payouts made, claims-paid counter) unchanged.
C13_DebitAtAndAboveReserve ==
    [][ last'.op = "DebitPayout"
        => /\ (last'.amount = pool.stablecoin_reserve)
                => /\ last'.ok /\ ~last'.raised
                   /\ pool'.stablecoin_reserve = 0
           /\ (last'.amount > pool.stablecoin_reserve)
                => /\ ~last'.ok /\ last'.err = "InsufficientFunds"
                   /\ last'.required = last'.amount
                   /\ last'.available = pool.stablecoin_reserve
                   /\ pool' = pool ]_vars

\* A payout took the whole reserve and the next payout, of a smaller
\* amount, was refused with available = 0.
C13_Witness ==
    /\ last.op = "DebitPayout" /\ last.err = "InsufficientFunds"
    /\ last.required > 0 /\ last.available = 0
    /\ pool.stablecoin_reserve = 0
    /\ pool.total_claims_paid = 1
    /\ pool.total_payouts_made > last.required

\* C14: a DebitPayout with amount <= 0 fails and changes no pool field.
C14_NonPositiveDebitFails ==
    [][ (last'.op = "DebitPayout" /\ last'.amount <= 0)
        => (last'.raised /\ pool' = pool) ]_vars

\* C15: a successful DebitPayout of amount a decreases the stablecoin
\* reserve and the TVL by a, increases payouts-made by a and the claims-paid
\* counter by 1, and leaves premiums-collected, the issued-policy counter
\* and the alternative-asset (fasset) reserve unchanged.
C15_DebitChangesExactly ==
    [][ (last'.op = "DebitPayout" /\ last'.ok)
        => LET a == last'.amount IN
           /\ pool'.stablecoin_reserve = pool.stablecoin_reserve - a
           /\ pool'.total_value_locked = pool.total_value_locked - a
           /\ pool'.total_payouts_made = pool.total_payouts_made + a
           /\ pool'.total_claims_paid = pool.total_claims_paid + 1
           /\ pool'.total_premiums_collected = pool.total_premiums_collected
           /\ pool'.total_policies_issued = pool.total_policies_issued
           /\ pool'.fasset_reserve = pool.fasset_reserve ]_vars

\* A payout of part of the reserve succeeded: the TVL and the reserve are
\* both what the premiums brought in less what was paid out.
C15_Witness ==
    /\ last.op = "DebitPayout" /\ last.ok /\ last.amount > 0
    /\ pool.stablecoin_reserve > 0
    /\ pool.total_value_locked = pool.stablecoin_reserve
    /\ pool.total_payouts_made = last.amount
    /\ pool.total_claims_paid = 1
    /\ pool.total_premiums_collected = pool.stablecoin_reserve + last.amount

\* C26: in every state that CreditPremium and DebitPayout reach from a new
\* pool, total_value_locked = stablecoin_reserve + fasset_reserve; the
\* fasset reserve stays 0, so the TVL equals the stablecoin reserve.
C26_TVLIsSumOfReserves ==
    /\ pool.total_value_locked = pool.stablecoin_reserve + pool.fasset_reserve
    /\ pool.fasset_reserve = 0
    /\ pool.total_value_locked = pool.stablecoin_reserve

\* Two premiums were credited and one payout debited; the TVL and the
\* reserve are both > 0.
C26_Witness ==
    /\ pool.total_policies_issued = 2
    /\ pool.total_claims_paid = 1
    /\ pool.total_payouts_made > 0
    /\ pool.stablecoin_reserve > 0
    /\ pool.total_value_locked > 0
    /\ last.op = "CreditPremium" /\ last.amount > 0

\* C27: no step decreases a pool's premiums-collected, payouts-made,
\* issued-policy counter or claims-paid counter.
C27_TotalsNeverDecrease ==
    [][ /\ pool'.total_premiums_collected >= pool.total_premiums_collected
        /\ pool'.total_payouts_made >= pool.total_payouts_made
        /\ pool'.total_policies_issued >= pool.total_policies_issued
        /\ pool'.total_claims_paid >= pool.total_claims_paid ]_vars

\* C38: the available-for-claims figure GetStats reports for the pool is
\* >= 0 and <= the stablecoin reserve; a CreditPremium or DebitPayout call
\* with an amount > 0 on a pool where that holds leaves it holding (so it
\* holds in every state such calls reach from a new pool).
C38_AvailableWithinReserve ==
    [][ ( /\ last'.op \in {"CreditPremium", "DebitPayout"}
          /\ last'.amount > 0
          /\ get_pool_stats(pool).available_for_claims >= 0
          /\ get_pool_stats(pool).available_for_claims
                <= pool.stablecoin_reserve )
        => /\ get_pool_stats(pool').available_for_claims >= 0
           /\ get_pool_stats(pool').available_for_claims
                 <= pool'.stablecoin_reserve ]_vars

\* ------------------------------------------------------------- policies
Users == {1, 2}
PolicyIds == {1}
AbsentPolicy == 3
MainPool == 1
AbsentPool == 2

\* A policy as the create_policy route stores it: status Pending, positive
\* coverage and premium amounts, a delay threshold in minutes.
NewPolicy(user_id) ==
    [ user_id                 |-> user_id,
      status                  |-> "pending",
      coverage_amount         |-> 2,
      premium_amount          |-> 2,
      delay_threshold_minutes |-> 1,
      payout_amount           |-> 0,
      paid_at                 |-> FALSE ]

InitPolicies == [ p \in PolicyIds |-> NewPolicy(1) ]

\* activate_policy and cancel_policy: "if policy.status != PENDING".
NotPending(status) == status # "pending"

\* --------------------------------------------------------------- claims
ClaimIds == DOMAIN claims

\* A claim that takes a payout amount other than the policy's coverage.
NewClaimWrongAmount(p, policy, user_id) ==
    [ policy_id       |-> p,
      user_id         |-> user_id,
      status          |-> "initiated",
      payout_amount   |-> policy.coverage_amount + 1,
      fdc_request_id  |-> 0,
      fdc_verified    |-> FALSE,
      rejection_reason |-> "none",
      reason_values   |-> << >>,
      error_message   |-> "none",
      approved_at     |-> FALSE,
      paid_at         |-> FALSE ]

\* ClaimsEngine.initiate_claim, "Create claim".  fdc_request_id 0 is None;
\* reason_values are the numbers formatted into the rejection reason.
NewClaim(p, policy, user_id) ==
    [ policy_id       |-> p,
      user_id         |-> user_id,
      status          |-> "initiated",
      payout_amount   |-> policy.coverage_amount,
      fdc_request_id  |-> 0,
      fdc_verified    |-> FALSE,
      rejection_reason |-> "none",
      reason_values   |-> << >>,
      error_message   |-> "none",
      approved_at     |-> FALSE,
      paid_at         |-> FALSE ]

\* Checks that leave out the policy's status.
InitiateErrorNoStatusCheck(p, user_id) ==
    IF p \notin DOMAIN policies THEN "NotFound"
    ELSE IF policies[p].user_id # user_id THEN "NotFound"
    ELSE "none"

\* Checks that leave out the comparison of the policy's owner with the
\* calling user.
InitiateErrorNoOwnerCheck(p, user_id) ==
    IF p \notin DOMAIN policies THEN "NotFound"
    ELSE IF policies[p].status # "active" THEN "PolicyNotActive"
    ELSE "none"

\* ClaimsEngine.initiate_claim, the checks before the claim is created, in
\* the order of the code: the error raised, or "none".
InitiateError(p, user_id) ==
    IF p \notin DOMAIN policies THEN "NotFound"
    ELSE IF policies[p].user_id # user_id THEN "NotFound"
    ELSE IF policies[p].status # "active" THEN "PolicyNotActive"
    ELSE IF policies[p].status \in {"claimed", "paid"}
         THEN "PolicyAlreadyClaimed"
    ELSE "none"

\* A missing (None) merkle root.
None == "None"

\* A verification that looks at the proof list only.
verify_proof_ignores_root(merkle_root, proof) ==
    IF proof = << >> THEN FALSE ELSE TRUE

\* FDCClient.verify_proof: "if not merkle_root or not proof: return False";
\* a root is falsy when it is None or the empty string, a proof list when
\* it is empty.
verify_proof(merkle_root, proof) ==
    IF merkle_root \in {None, ""} \/ proof = << >> THEN FALSE ELSE TRUE

\* A payout guard that also lets a Paid claim through.
NotApprovedOrPaid(status) == status \notin {"approved", "paid"}

\* A payout guard that lets a Failed claim be retried.
NotApprovedOrFailed(status) == status \notin {"approved", "failed"}

\* ClaimsEngine.process_payout: "if claim.status != ClaimStatus.APPROVED".
NotApproved(status) == status # "approved"

\* verify_claim route: "if claim.status not in [INITIATED, VERIFYING]".
NotVerifiable(status) == status \notin {"initiated", "verifying"}

\* fdc_finalization_webhook: "delay_minutes >= policy.delay_threshold_minutes".
MeetsThreshold(delay_minutes, policy) ==
    delay_minutes >= policy.delay_threshold_minutes

\* ------------------------------------------------------- Spec: handlers
\* activate_policy route.
ActivatePolicy(p) ==
    /\ p \in PolicyIds
    /\ IF NotPending(policies[p].status)
       THEN /\ UNCHANGED policies
            /\ last' = [ NoCall EXCEPT !.op = "ActivatePolicy", !.policy = p,
                           !.before = policies[p].status,
                           !.ok = FALSE, !.raised = TRUE, !.err = "BadRequest" ]
       ELSE /\ policies' = [ policies EXCEPT ![p].status = "active" ]
            /\ last' = [ NoCall EXCEPT !.op = "ActivatePolicy", !.policy = p,
                           !.before = policies[p].status ]
    /\ UNCHANGED <<pool, claims, tasks>>

\* cancel_policy route.
CancelPolicy(p) ==
    /\ p \in PolicyIds
    /\ IF NotPending(policies[p].status)
       THEN /\ UNCHANGED policies
            /\ last' = [ NoCall EXCEPT !.op = "CancelPolicy", !.policy = p,
                           !.before = policies[p].status,
                           !.ok = FALSE, !.raised = TRUE, !.err = "BadRequest" ]
       ELSE /\ policies' = [ policies EXCEPT ![p].status = "cancelled" ]
            /\ last' = [ NoCall EXCEPT !.op = "CancelPolicy", !.policy = p,
                           !.before = policies[p].status ]
    /\ UNCHANGED <<pool, claims, tasks>>

\* PoolManager.deposit_premium with the premium of policy p (premiums are
\* > 0: create_policy stores max(round(premium, 2), 5.00)).
DepositPremium(p) ==
    /\ pool.total_policies_issued < MaxDeposits
    /\ pool' = deposit_premium(pool, policies[p].premium_amount)
    /\ last' = [ NoCall EXCEPT !.op = "CreditPremium", !.policy = p,
                   !.amount = policies[p].premium_amount ]
    /\ UNCHANGED <<policies, claims, tasks>>

\* An initiate_claim that creates the claim and leaves the policy Active.
InitiateClaimKeepsPolicyActive(p, user_id) ==
    /\ InitiateError(p, user_id) = "none"
    /\ claims' = Append(claims, NewClaim(p, policies[p], user_id))
    /\ last' = [ NoCall EXCEPT !.op = "InitiateClaim", !.policy = p,
                   !.user_id = user_id, !.before = policies[p].status,
                   !.claim = Len(claims) + 1 ]
    /\ UNCHANGED <<pool, policies, tasks>>

\* An initiate_claim that also sets the coverage aside out of the pool.
InitiateClaimReservesPayout(p, user_id) ==
    /\ InitiateError(p, user_id) = "none"
    /\ claims' = Append(claims, NewClaim(p, policies[p], user_id))
    /\ policies' = [ policies EXCEPT ![p].status = "payout_pending" ]
    /\ pool' = ApplyPayout(pool, policies[p].coverage_amount)
    /\ last' = [ NoCall EXCEPT !.op = "InitiateClaim", !.policy = p,
                   !.user_id = user_id, !.before = policies[p].status,
                   !.claim = Len(claims) + 1 ]
    /\ UNCHANGED tasks

\* ClaimsEngine.initiate_claim followed by the caller's commit (create_claim
\* route).  An exception leaves the session uncommitted: nothing changes.
InitiateClaim(p, user_id) ==
    LET err == InitiateError(p, user_id) IN
    /\ IF err # "none"
       THEN /\ UNCHANGED <<policies, claims>>
            /\ last' = [ NoCall EXCEPT !.op = "InitiateClaim", !.policy = p,
                           !.user_id = user_id,
                           !.before = IF p \in DOMAIN policies
                                      THEN policies[p].status ELSE "none",
                           !.ok = FALSE, !.raised = TRUE, !.err = err ]
       ELSE /\ claims' = Append(claims, NewClaim(p, policies[p], user_id))
            /\ policies' = [ policies EXCEPT ![p].status = "payout_pending" ]
            /\ last' = [ NoCall EXCEPT !.op = "InitiateClaim", !.policy = p,
                           !.user_id = user_id,
                           !.before = policies[p].status,
                           !.claim = Len(claims) + 1 ]
    /\ UNCHANGED <<pool, tasks>>

\* What the attestation oracle does with a request: submit_request raises,
\* the request is reported failed, the wait runs out, get_proof raises, or
\* the request finalizes with a proof and a measured delay in the response.
OracleFailures == {"submit_error", "failed", "timeout", "proof_error"}
Proofs == { << >>, <<"0x01">> }
MerkleRoot == "0xab"
OracleResponses ==
    [ outcome : OracleFailures, proof : {<< >>}, delay : {0} ]
    \cup [ outcome : {"finalized"}, proof : Proofs, delay : Delays ]

\* ClaimsEngine.verify_claim_with_fdc on claim row cl with id c: the row
\* after the call.  The request id the oracle hands out for claim c is c;
\* every FDCAttestationError message is stored as "FDC Error" (its prefix).
\* The measured delay o.delay is in the response data; the code stores the
\* response and does not read it.
verify_claim_with_fdc(c, cl, o) ==
    LET verifying == [ cl EXCEPT !.status = "verifying" ]
        submitted == [ verifying EXCEPT !.fdc_request_id = c ]
    IN  IF o.outcome = "submit_error"
        THEN [ verifying EXCEPT !.status = "failed",
                                !.error_message = "FDC Error" ]
        ELSE IF o.outcome # "finalized"
        THEN [ submitted EXCEPT !.status = "failed",
                                !.error_message = "FDC Error" ]
        ELSE IF verify_proof(MerkleRoot, o.proof)
        THEN [ submitted EXCEPT !.status = "approved",
                                !.fdc_verified = TRUE,
                                !.approved_at = TRUE ]
        ELSE [ submitted EXCEPT !.status = "rejected",
                                !.fdc_verified = FALSE,
                                !.rejection_reason = "proof_verification_failed",
                                !.reason_values = << >> ]

\* VerifyWithOracle: ClaimsEngine.verify_claim_with_fdc, entered through the
\* verify_claim route (which checks the status first) or called on the
\* engine (auto_process_claim, a background task), then committed.
VerifyWithOracle(c, entry, o) ==
    /\ IF c \notin ClaimIds
       THEN /\ UNCHANGED claims
            /\ last' = [ NoCall EXCEPT !.op = "VerifyWithOracle", !.claim = c,
                           !.ok = FALSE, !.raised = TRUE, !.err = "NotFound" ]
       ELSE IF entry = "verify_claim" /\ NotVerifiable(claims[c].status)
       THEN /\ UNCHANGED claims
            /\ last' = [ NoCall EXCEPT !.op = "VerifyWithOracle", !.claim = c,
                           !.before = claims[c].status,
                           !.ok = FALSE, !.raised = TRUE, !.err = "BadRequest" ]
       ELSE LET after == verify_claim_with_fdc(c, claims[c], o) IN
            /\ claims' = [ claims EXCEPT ![c] = after ]
            /\ last' = [ NoCall EXCEPT !.op = "VerifyWithOracle", !.claim = c,
                           !.before = claims[c].status,
                           !.oracle = o.outcome,
                           !.valid = ( o.outcome = "finalized"
                                       /\ verify_proof(MerkleRoot, o.proof) ),
                           !.delay = o.delay,
                           !.ok = (after.status = "approved"),
                           !.err = IF after.status = "failed"
                                   THEN after.error_message
                                   ELSE IF after.status = "rejected"
                                   THEN "Verification failed" ELSE "none" ]
    /\ UNCHANGED <<pool, policies, tasks>>

AttestationTypes == {"Web2Json", "EVMTransaction"}

\* fdc_finalization_webhook for the claim that carries request_id.
FdcWebhook(request_id, attestation_type, delay) ==
    LET found == { c \in ClaimIds : claims[c].fdc_request_id = request_id } IN
    /\ IF found = {}
       THEN /\ UNCHANGED claims
            /\ last' = [ NoCall EXCEPT !.op = "FdcWebhook", !.ok = FALSE,
                           !.raised = TRUE, !.err = "NotFound" ]
       ELSE LET c  == CHOOSE x \in found : TRUE
                cl == [ claims[c] EXCEPT !.fdc_verified = TRUE ]
                after ==
                    IF attestation_type # "Web2Json" THEN cl
                    ELSE IF MeetsThreshold(delay, policies[cl.policy_id])
                    THEN [ cl EXCEPT !.status = "approved" ]
                    ELSE [ cl EXCEPT !.status = "rejected",
                                     !.rejection_reason = "below_threshold",
                                     !.reason_values = <<delay>> ]
            IN
            /\ claims' = [ claims EXCEPT ![c] = after ]
            /\ last' = [ NoCall EXCEPT !.op = "FdcWebhook", !.claim = c,
                           !.before = claims[c].status, !.delay = delay,
                           !.oracle = attestation_type ]
    /\ UNCHANGED <<pool, policies, tasks>>

\* What can go wrong in ClaimsEngine.process_payout after the pool debit:
\* nothing; the policy update raises and the handler's flush goes through;
\* the final flush raises and the handler's flush goes through; or the
\* handler's own flush raises too, the exception leaves the call and the
\* session is never committed.
Faults == {"none", "policy_update", "flush", "unhandled"}

\* The environment of one process_payout call: the pool id passed, whether
\* the FTSO price lookup succeeds, and the fault after the debit.
PayoutEnvs ==
    [ pool_id : {MainPool}, price_ok : {TRUE}, fault : Faults ]
    \cup [ pool_id : {AbsentPool}, price_ok : {TRUE}, fault : {"none"} ]
    \cup [ pool_id : {MainPool}, price_ok : {FALSE}, fault : {"none"} ]

\* A try block that debits the pool before it looks the price up.
PayoutAttemptDebitsFirst(cl, policy, pl, pool_id, price_ok, fault) ==
    LET debit == PoolManager_process_payout(pl, cl.payout_amount) IN
    IF ~debit.ok
    THEN [ ok |-> FALSE, err |-> debit.err,
           claim |-> [ cl EXCEPT !.status = "failed",
                                 !.error_message = "pool_error" ],
           policy |-> policy, pool |-> pl ]
    ELSE IF ~price_ok
    THEN [ ok |-> FALSE, err |-> "FTSOPriceError",
           claim |-> [ cl EXCEPT !.status = "failed",
                                 !.error_message = "ftso_error" ],
           policy |-> policy, pool |-> debit.pool ]
    ELSE [ ok |-> TRUE, err |-> "none",
           claim |-> [ cl EXCEPT !.status = "paid", !.paid_at = TRUE ],
           policy |-> [ policy EXCEPT !.status = "paid",
                                      !.payout_amount = cl.payout_amount,
                                      !.paid_at = TRUE ],
           pool |-> debit.pool ]

\* ClaimsEngine.process_payout, the try block on an Approved claim: the
\* outcome, and the claim, policy and pool rows the session holds at the end.
PayoutAttempt(cl, policy, pl, pool_id, price_ok, fault) ==
    LET failed(msg) == [ cl EXCEPT !.status = "failed", !.error_message = msg ]
        debit == PoolManager_process_payout(pl, cl.payout_amount)
        paidPolicy == [ policy EXCEPT !.status = "paid",
                                      !.payout_amount = cl.payout_amount,
                                      !.paid_at = TRUE ]
    IN  IF ~price_ok
        THEN [ ok |-> FALSE, err |-> "FTSOPriceError",
               claim |-> failed("ftso_error"), policy |-> policy, pool |-> pl ]
        ELSE IF pool_id # MainPool
        THEN [ ok |-> FALSE, err |-> "PoolNotFound",
               claim |-> failed("pool_not_found"), policy |-> policy,
               pool |-> pl ]
        ELSE IF ~debit.ok
        THEN [ ok |-> FALSE, err |-> debit.err,
               claim |-> failed("insufficient_funds"), policy |-> policy,
               pool |-> pl ]
        ELSE IF fault = "policy_update"
        THEN [ ok |-> FALSE, err |-> "DatabaseError",
               claim |-> failed("database_error"), policy |-> policy,
               pool |-> debit.pool ]
        ELSE IF fault = "flush"
        THEN [ ok |-> FALSE, err |-> "DatabaseError",
               claim |-> failed("database_error"), policy |-> paidPolicy,
               pool |-> debit.pool ]
        ELSE [ ok |-> TRUE, err |-> "none",
               claim |-> [ cl EXCEPT !.status = "paid", !.paid_at = TRUE ],
               policy |-> paidPolicy, pool |-> debit.pool ]

\* ProcessPayout: ClaimsEngine.process_payout, then the caller's commit.
ProcessPayout(c, env) ==
    IF c \notin ClaimIds
    THEN /\ UNCHANGED <<pool, policies, claims, tasks>>
         /\ last' = [ NoCall EXCEPT !.op = "ProcessPayout", !.claim = c,
                        !.ok = FALSE, !.raised = TRUE, !.err = "NotFound" ]
    ELSE IF NotApproved(claims[c].status)
    THEN /\ UNCHANGED <<pool, policies, claims, tasks>>
         /\ last' = [ NoCall EXCEPT !.op = "ProcessPayout", !.claim = c,
                        !.before = claims[c].status, !.ok = FALSE,
                        !.raised = TRUE, !.err = "ValueError" ]
    ELSE LET cl == claims[c]
             r  == PayoutAttempt(cl, policies[cl.policy_id], pool,
                                 env.pool_id, env.price_ok, env.fault)
             debited == r.pool # pool
         IN
         IF debited /\ env.fault = "unhandled"
         THEN /\ UNCHANGED <<pool, policies, claims, tasks>>
              /\ last' = [ NoCall EXCEPT !.op = "ProcessPayout", !.claim = c,
                             !.before = cl.status, !.ok = FALSE,
                             !.pool_id = env.pool_id,
                             !.price_ok = env.price_ok,
                             !.raised = TRUE, !.err = "DatabaseError" ]
         ELSE /\ claims' = [ claims EXCEPT ![c] = r.claim ]
              /\ policies' = [ policies EXCEPT ![cl.policy_id] = r.policy ]
              /\ pool' = r.pool
              /\ last' = [ NoCall EXCEPT !.op = "ProcessPayout", !.claim = c,
                             !.before = cl.status, !.ok = r.ok, !.err = r.err,
                             !.pool_id = env.pool_id,
                             !.price_ok = env.price_ok,
                             !.amount = cl.payout_amount ]
              /\ UNCHANGED tasks

\* A test of the verification result that lets every result through.
AlwaysVerified(cl) == TRUE

\* auto_process_claim: verification["is_verified"], which is true exactly
\* when verify_claim_with_fdc approved the claim.
IsVerified(cl) == cl.status = "approved"

\* AutoProcessClaim: ClaimsEngine.auto_process_claim in one session, then
\* the caller's commit; an exception leaves the session uncommitted.
\* last.steps lists the engine calls it made, in order.
AutoProcessClaim(p, user_id, o, env) ==
    LET err == InitiateError(p, user_id)
        rec == [ NoCall EXCEPT !.op = "AutoProcessClaim", !.policy = p,
                               !.user_id = user_id ]
    IN
    IF err # "none"
    THEN /\ UNCHANGED <<pool, policies, claims, tasks>>
         /\ last' = [ rec EXCEPT !.ok = FALSE, !.raised = TRUE, !.err = err,
                                 !.steps = <<"InitiateClaim">> ]
    ELSE LET c == Len(claims) + 1
             policy == [ policies[p] EXCEPT !.status = "payout_pending" ]
             cl == verify_claim_with_fdc(c, NewClaim(p, policies[p], user_id), o)
             valid == o.outcome = "finalized" /\ verify_proof(MerkleRoot, o.proof)
             seen == [ rec EXCEPT !.claim = c, !.oracle = o.outcome,
                                  !.valid = valid ]
         IN
         IF ~IsVerified(cl)
         THEN /\ claims' = Append(claims, cl)
              /\ policies' = [ policies EXCEPT ![p] = policy ]
              /\ last' = [ seen EXCEPT
                             !.ok = FALSE, !.err = "verification_failed",
                             !.steps = <<"InitiateClaim", "VerifyWithOracle">> ]
              /\ UNCHANGED <<pool, tasks>>
         ELSE LET r == PayoutAttempt(cl, policy, pool, env.pool_id,
                                     env.price_ok, env.fault)
                  all == [ seen EXCEPT
                             !.pool_id = env.pool_id,
                             !.price_ok = env.price_ok,
                             !.amount = cl.payout_amount,
                             !.steps = <<"InitiateClaim", "VerifyWithOracle",
                                         "ProcessPayout">> ]
              IN
              IF NotApproved(cl.status)
              THEN /\ UNCHANGED <<pool, policies, claims, tasks>>
                   /\ last' = [ all EXCEPT !.ok = FALSE, !.raised = TRUE,
                                           !.err = "ValueError" ]
              ELSE IF r.pool # pool /\ env.fault = "unhandled"
              THEN /\ UNCHANGED <<pool, policies, claims, tasks>>
                   /\ last' = [ all EXCEPT !.ok = FALSE, !.raised = TRUE,
                                           !.err = "DatabaseError" ]
              ELSE /\ claims' = Append(claims, r.claim)
                   /\ policies' = [ policies EXCEPT ![p] = r.policy ]
                   /\ pool' = r.pool
                   /\ last' = [ all EXCEPT !.ok = r.ok, !.err = r.err ]
                   /\ UNCHANGED tasks

Init ==
    /\ pool = NewPool
    /\ policies = InitPolicies
    /\ claims = << >>
    /\ last = NoCall
    /\ tasks = << >>

Next ==
    \/ \E p \in PolicyIds : ActivatePolicy(p)
    \/ \E p \in PolicyIds : CancelPolicy(p)
    \/ \E p \in PolicyIds : DepositPremium(p)
    \/ \E p \in PolicyIds \cup {AbsentPolicy}, u \in Users : InitiateClaim(p, u)
    \/ \E c \in 1..(Len(claims) + 1), entry \in {"verify_claim", "engine"},
          o \in OracleResponses : VerifyWithOracle(c, entry, o)
    \/ \E rid \in 1..(Len(claims) + 1), t \in AttestationTypes,
          delay \in Delays : FdcWebhook(rid, t, delay)
    \/ \E c \in 1..(Len(claims) + 1), env \in PayoutEnvs :
            ProcessPayout(c, env)

Spec == Init /\ [][Next]_vars

\* ------------------------------------------------- properties under Spec
PaidClaims == { c \in ClaimIds : claims[c].status = "paid" }

RECURSIVE SumPayout(_)
SumPayout(cs) ==
    IF cs = {} THEN 0
    ELSE LET c == CHOOSE x \in cs : TRUE
         IN claims[c].payout_amount + SumPayout(cs \ {c})

\* C5: a ProcessPayout call on a claim that is already Paid leaves every
\* pool field (reserve, TVL, payouts made, claims-paid counter) as it was.
C5_PaidReplayLeavesPool ==
    [][ (last'.op = "ProcessPayout" /\ last'.before = "paid")
        => pool' = pool ]_vars

\* ProcessPayout was called again on the claim it had paid.
C5_Witness ==
    /\ last.op = "ProcessPayout" /\ last.before = "paid"
    /\ claims[last.claim].status = "paid"
    /\ pool.total_claims_paid = 1
    /\ pool.total_payouts_made = claims[last.claim].payout_amount

\* C6: a ProcessPayout call on a claim that is already Paid returns a
\* success outcome and raises no error.
C6_PaidReplaySucceeds ==
    (last.op = "ProcessPayout" /\ last.before = "paid")
        => (last.ok /\ ~last.raised)

\* C7: the pool's claims-paid counter is the number of Paid claims and
\* payouts-made is the sum of their payout amounts.
C7_PoolMatchesPaidClaims ==
    /\ pool.total_claims_paid = Cardinality(PaidClaims)
    /\ pool.total_payouts_made = SumPayout(PaidClaims)

C9_ApprovedIffThreshold ==
    (last.op = "VerifyWithOracle" /\ last.valid)
        => LET cl == claims[last.claim] IN
           IF last.delay >= policies[cl.policy_id].delay_threshold_minutes
           THEN cl.status = "approved"
           ELSE cl.status = "rejected"

\* C10: VerifyWithOracle on a claim that is not Initiated or Verifying fails
\* and leaves the claim's status as it was.
C10_VerifyOnlyFromInitiatedOrVerifying ==
    ( /\ last.op = "VerifyWithOracle"
      /\ last.before \in {"approved", "processing", "paid", "rejected",
                          "failed"} )
        => /\ last.raised
           /\ claims[last.claim].status = last.before

\* C11: a ProcessPayout call on a claim whose status is not Approved raises
\* and changes nothing: every claim (status and fields), every policy and
\* every pool field is as before the call.
C11_NotApprovedNoMutation ==
    [][ ( /\ last'.op = "ProcessPayout"
          /\ last'.claim \in ClaimIds
          /\ claims[last'.claim].status # "approved" )
        => /\ last'.raised /\ ~last'.ok
           /\ UNCHANGED <<pool, policies, claims>> ]_vars

\* ProcessPayout was called on a claim that verification had left Rejected
\* or Failed, or that was still Initiated, and the claim is as it was.
C11_Witness ==
    /\ last.op = "ProcessPayout" /\ last.raised
    /\ last.before \in {"initiated", "rejected", "failed"}
    /\ claims[last.claim].status = last.before
    /\ policies[claims[last.claim].policy_id].status = "payout_pending"

C16_InitiateAllOrNothing ==
    [][ /\ \A c \in DOMAIN claims' :
             policies'[claims'[c].policy_id].status
                 \in {"payout_pending", "paid"}
        /\ last'.op = "InitiateClaim"
             => IF last'.raised
                THEN UNCHANGED <<claims, policies>>
                ELSE /\ Len(claims') = Len(claims) + 1
                     /\ claims'[Len(claims')].policy_id = last'.policy
                     /\ policies[last'.policy].status = "active"
                     /\ policies'[last'.policy].status = "payout_pending" ]_vars

\* The owner's second InitiateClaim on a policy failed: the policy has its
\* one claim and is PayoutPending.
C16_Witness ==
    /\ last.op = "InitiateClaim" /\ last.raised
    /\ last.policy \in DOMAIN policies
    /\ last.user_id = policies[last.policy].user_id
    /\ policies[last.policy].status = "payout_pending"
    /\ Len(claims) = 1 /\ claims[1].policy_id = last.policy

\* C17: InitiateClaim on a policy that is absent or not owned by the calling
\* user fails with NotFound, and on the owner's Pending policy fails with
\* PolicyNotActive; in both cases no claim is created and no policy changes.
C17_InitiateRejections ==
    [][ last'.op = "InitiateClaim"
        => LET p == last'.policy
               u == last'.user_id
           IN  /\ (p \notin DOMAIN policies \/ policies[p].user_id # u)
                    => /\ last'.raised /\ last'.err = "NotFound"
                       /\ UNCHANGED <<claims, policies>>
               /\ ( /\ p \in DOMAIN policies
                    /\ policies[p].user_id = u
                    /\ policies[p].status = "pending" )
                    => /\ last'.raised /\ last'.err = "PolicyNotActive"
                       /\ UNCHANGED <<claims, policies>> ]_vars

\* The owner called InitiateClaim on the Pending policy: PolicyNotActive,
\* no claim, the policy still Pending.
C17_Witness ==
    /\ last.op = "InitiateClaim" /\ last.err = "PolicyNotActive"
    /\ last.before = "pending"
    /\ last.user_id = policies[last.policy].user_id
    /\ policies[last.policy].status = "pending"
    /\ claims = << >>

\* C18: InitiateClaim by the owner on a policy whose status is Claimed or
\* Paid fails with PolicyAlreadyClaimed.
C18_AlreadyClaimedError ==
    ( /\ last.op = "InitiateClaim"
      /\ last.policy \in DOMAIN policies
      /\ last.user_id = policies[last.policy].user_id
      /\ last.before \in {"claimed", "paid"} )
        => /\ last.raised
           /\ last.err = "PolicyAlreadyClaimed"

\* The merkle roots verify_proof can be handed: missing, empty, or a root.
MerkleRoots == {None, "", MerkleRoot}

\* C21: verify_proof returns false whenever the merkle root is missing or
\* empty or the proof list is empty; and when the oracle finalized and the
\* proof verification returned false, VerifyWithOracle leaves the claim
\* Rejected with fdc_verified false and the reason "proof verification
\* failed", which is not the reason of a below-threshold rejection.
C21_InvalidProofRejects ==
    /\ \A r \in MerkleRoots, pr \in Proofs :
          (r \in {None, ""} \/ pr = << >>) => ~verify_proof(r, pr)
    /\ ( /\ last.op = "VerifyWithOracle"
         /\ last.oracle = "finalized"
         /\ ~last.valid )
         => LET cl == claims[last.claim] IN
            /\ cl.status = "rejected"
            /\ cl.fdc_verified = FALSE
            /\ cl.rejection_reason = "proof_verification_failed"
            /\ cl.rejection_reason # "below_threshold"
            /\ ~last.ok

\* The oracle finalized with an empty proof list and the claim is Rejected.
C21_Witness ==
    /\ last.op = "VerifyWithOracle" /\ last.oracle = "finalized"
    /\ ~last.valid /\ last.before = "initiated"
    /\ claims[last.claim].status = "rejected"
    /\ claims[last.claim].rejection_reason = "proof_verification_failed"

\* C22: when a claim is rejected because the measured delay is below the
\* policy's threshold, the stored rejection reason cites both the measured
\* delay and the threshold.
C22_ReasonCitesDelayAndThreshold ==
    ( /\ last.op = "FdcWebhook"
      /\ last.claim \in ClaimIds
      /\ claims[last.claim].rejection_reason = "below_threshold" )
        => LET cl == claims[last.claim]
               cited == { cl.reason_values[i] : i \in DOMAIN cl.reason_values }
           IN  /\ last.delay \in cited
               /\ policies[cl.policy_id].delay_threshold_minutes \in cited

\* C23: in every reachable state a policy is Paid if and only if one of its
\* claims is Paid; and after a successful ProcessPayout the claim is Paid
\* with paid_at set, the policy is Paid and the payout amount recorded on
\* the policy is the claim's.
C23_PolicyPaidIffClaimPaid ==
    /\ \A p \in DOMAIN policies :
          (policies[p].status = "paid")
              <=> (\E c \in ClaimIds : /\ claims[c].policy_id = p
                                        /\ claims[c].status = "paid")
    /\ (last.op = "ProcessPayout" /\ last.ok)
          => LET cl == claims[last.claim] IN
             /\ cl.status = "paid" /\ cl.paid_at
             /\ policies[cl.policy_id].status = "paid"
             /\ policies[cl.policy_id].payout_amount = cl.payout_amount

C32_WebhookOnlyFromVerifying ==
    [][ ( /\ last'.op = "FdcWebhook" /\ ~last'.raised
          /\ claims[last'.claim].status # "verifying" )
        => claims'[last'.claim].status = claims[last'.claim].status ]_vars

\* C33: a claim that is Processing or Paid has fdc_verified true and an
\* oracle request id, and a step that debits the pool for a claim finds
\* that claim Approved with fdc_verified true and an oracle request id.
C33_PaidClaimsOracleVerified ==
    [][ /\ \A c \in DOMAIN claims' :
              (claims'[c].status \in {"processing", "paid"})
                  => /\ claims'[c].fdc_verified
                     /\ claims'[c].fdc_request_id # 0
        /\ (last'.op = "ProcessPayout" /\ pool' # pool)
              => /\ claims[last'.claim].status = "approved"
                 /\ claims[last'.claim].fdc_verified
                 /\ claims[last'.claim].fdc_request_id # 0 ]_vars

\* A claim approved by the oracle verification was paid out of the pool.
C33_Witness ==
    /\ last.op = "ProcessPayout" /\ last.ok
    /\ claims[last.claim].status = "paid"
    /\ claims[last.claim].fdc_verified
    /\ claims[last.claim].fdc_request_id = last.claim
    /\ claims[last.claim].approved_at
    /\ pool.total_claims_paid = 1

\* C35: when the price lookup inside ProcessPayout fails, no pool field
\* changes although the pool could have paid, the policy keeps its status
\* (PayoutPending when it was), and the claim ends Failed with the error
\* stored.
C35_PriceFailureNoDebit ==
    [][ ( /\ last'.op = "ProcessPayout" /\ ~last'.raised
          /\ ~last'.price_ok )
        => LET c == last'.claim
               p == claims[c].policy_id
           IN
           /\ pool' = pool
           /\ policies' = policies
           /\ (policies[p].status = "payout_pending")
                => policies'[p].status = "payout_pending"
           /\ claims'[c].status = "failed"
           /\ claims'[c].error_message = "ftso_error"
           /\ claims'[c].paid_at = claims[c].paid_at
           /\ ~last'.ok /\ last'.err = "FTSOPriceError" ]_vars

\* The price lookup failed for an approved claim that the pool had the
\* funds to pay: the claim is Failed, the policy PayoutPending, the pool
\* has paid nothing.
C35_Witness ==
    /\ last.op = "ProcessPayout" /\ last.err = "FTSOPriceError"
    /\ last.before = "approved" /\ last.pool_id = MainPool
    /\ claims[last.claim].status = "failed"
    /\ claims[last.claim].error_message = "ftso_error"
    /\ policies[claims[last.claim].policy_id].status = "payout_pending"
    /\ pool.stablecoin_reserve >= claims[last.claim].payout_amount
    /\ pool.total_claims_paid = 0
    /\ pool.total_payouts_made = 0

\* The claims of policy p among the claim rows cs.
ClaimsOf(cs, p) == { c \in DOMAIN cs : cs[c].policy_id = p }

\* C34: every policy has at most one claim; once a policy has a claim no
\* step makes it Active again, whatever became of the claim; and every
\* later InitiateClaim on it fails, with PolicyNotActive when the caller is
\* the policy's owner.
C34_OneClaimPerPolicy ==
    [][ \A p \in DOMAIN policies :
          /\ Cardinality(ClaimsOf(claims', p)) <= 1
          /\ (ClaimsOf(claims, p) # {})
                => /\ policies'[p].status # "active"
                   /\ (last'.op = "InitiateClaim" /\ last'.policy = p)
                        => /\ last'.raised
                           /\ claims' = claims
                           /\ (last'.user_id = policies[p].user_id)
                                => last'.err = "PolicyNotActive" ]_vars

\* The policy's claim was rejected; the owner initiated a claim again and
\* got PolicyNotActive; the policy still has that one claim.
C34_Witness ==
    /\ last.op = "InitiateClaim" /\ last.err = "PolicyNotActive"
    /\ last.user_id = policies[last.policy].user_id
    /\ ClaimsOf(claims, last.policy) = {1}
    /\ claims[1].status = "rejected"
    /\ policies[last.policy].status = "payout_pending"

\* ------------------------------------------------------------- SpecAuto
\* auto_process_claim has no caller among the routes; SpecAuto runs it as
\* the only claim operation, next to the policy routes and the premium
\* deposits that set up its inputs.
NextAuto ==
    \/ \E p \in PolicyIds : ActivatePolicy(p)
    \/ \E p \in PolicyIds : CancelPolicy(p)
    \/ \E p \in PolicyIds : DepositPremium(p)
    \/ \E p \in PolicyIds \cup {AbsentPolicy}, u \in Users,
          o \in OracleResponses, env \in PayoutEnvs :
            AutoProcessClaim(p, u, o, env)

SpecAuto == Init /\ [][NextAuto]_vars

\* C25: AutoProcessClaim calls InitiateClaim, then VerifyWithOracle, then
\* ProcessPayout, each at most once and in that order, and stops at the
\* first failure: when the initiation fails it makes no other call and
\* changes nothing; when the verification does not approve the claim,
\* ProcessPayout is not called and no pool field changes.
C25_AutoStopsAtFirstFailure ==
    [][ last'.op = "AutoProcessClaim"
        => /\ last'.steps \in
                 { <<"InitiateClaim">>,
                   <<"InitiateClaim", "VerifyWithOracle">>,
                   <<"InitiateClaim", "VerifyWithOracle", "ProcessPayout">> }
           /\ (InitiateError(last'.policy, last'.user_id) # "none")
                <=> (last'.steps = <<"InitiateClaim">>)
           /\ (last'.steps = <<"InitiateClaim">>)
                => /\ last'.raised
                   /\ UNCHANGED <<pool, policies, claims>>
           /\ (Len(last'.steps) >= 2 /\ ~last'.valid)
                => /\ last'.steps = <<"InitiateClaim", "VerifyWithOracle">>
                   /\ ~last'.ok
                   /\ pool' = pool
                   /\ claims'[last'.claim].status \in {"rejected", "failed"}
           /\ (Len(last'.steps) >= 2 /\ last'.valid)
                => last'.steps = <<"InitiateClaim", "VerifyWithOracle",
                                   "ProcessPayout">> ]_vars

\* AutoProcessClaim initiated a claim on the funded pool, the oracle
\* reported the request failed, and it stopped: the claim is Failed, the
\* policy PayoutPending, the pool has paid nothing.
C25_Witness ==
    /\ last.op = "AutoProcessClaim"
    /\ last.steps = <<"InitiateClaim", "VerifyWithOracle">>
    /\ last.oracle = "failed"
    /\ claims[last.claim].status = "failed"
    /\ policies[last.policy].status = "payout_pending"
    /\ pool.stablecoin_reserve >= claims[last.claim].payout_amount
    /\ pool.total_claims_paid = 0

\* ----------------------------------------------------------- SpecHealth
\* PoolManager.get_pool_stats(pool_id): None when there is no such pool.
GetStats(pool_id) ==
    /\ last' = [ NoCall EXCEPT
                   !.op = "GetStats", !.pool_id = pool_id,
                   !.ok = (pool_id = MainPool),
                   !.result = IF pool_id = MainPool
                              THEN [ found |-> TRUE ] @@ get_pool_stats(pool)
                              ELSE [ found |-> FALSE ] ]
    /\ UNCHANGED <<pool, policies, claims, tasks>>

\* PoolManager.check_pool_health(pool_id): {"healthy": False, "error":
\* "Pool not found"} when there is no such pool.
CheckHealth(pool_id) ==
    /\ last' = [ NoCall EXCEPT
                   !.op = "CheckHealth", !.pool_id = pool_id,
                   !.ok = (pool_id = MainPool),
                   !.err = IF pool_id = MainPool THEN "none"
                           ELSE "Pool not found",
                   !.result = IF pool_id = MainPool
                              THEN check_pool_health(get_pool_stats(pool))
                              ELSE [ found |-> FALSE, healthy |-> FALSE ] ]
    /\ UNCHANGED <<pool, policies, claims, tasks>>

\* How far around each threshold of check_pool_health the pool rows of
\* SpecHealth are drawn.
HealthSpread == 1

\* Pool rows around the thresholds: the ratio around the minimum, the
\* reserve around the floor, and premiums less payouts around 80% of a TVL
\* of 100 (or any, with a TVL of 0).
HealthRows ==
    { [ NewPool EXCEPT !.collateralization_ratio = ratio,
                       !.stablecoin_reserve = reserve,
                       !.total_value_locked = tvl,
                       !.total_premiums_collected = premiums,
                       !.total_payouts_made = payouts ] :
        ratio \in (min_collateralization_ratio - HealthSpread)
                     ..(min_collateralization_ratio + HealthSpread),
        reserve \in (MinReserve - HealthSpread)..(MinReserve + HealthSpread),
        tvl \in {0, Percent},
        premiums \in (MaxUtilization - HealthSpread)
                        ..(MaxUtilization + HealthSpread),
        payouts \in 0..HealthSpread }

InitHealth ==
    /\ pool \in HealthRows
    /\ policies = << >>
    /\ claims = << >>
    /\ last = NoCall
    /\ tasks = << >>

NextHealth ==
    \/ \E pool_id \in {MainPool, AbsentPool} : GetStats(pool_id)
    \/ \E pool_id \in {MainPool, AbsentPool} : CheckHealth(pool_id)

SpecHealth == InitHealth /\ [][NextHealth]_vars

\* The number of the three conditions of C28 that hold of the pool row.
C28_Conditions ==
    (IF pool.collateralization_ratio < min_collateralization_ratio
     THEN 1 ELSE 0)
    + (IF /\ pool.total_value_locked > 0
          /\ (pool.total_premiums_collected - pool.total_payouts_made)
                * Percent > MaxUtilization * pool.total_value_locked
       THEN 1 ELSE 0)
    + (IF pool.stablecoin_reserve < MinReserve THEN 1 ELSE 0)

\* C28: CheckHealth on a pool raises exactly one warning for each of:
\* collateralization ratio below the 150% minimum, utilization (premiums
\* less payouts over TVL) above 80%, stablecoin reserve below the floor;
\* risk_level is high with 2 or more warnings, medium with 1, low with
\* none, and is_healthy holds exactly when there is no warning.
C28_HealthWarnings ==
    (last.op = "CheckHealth" /\ last.result.found)
    => LET res == last.result
           ws  == { res.warnings[i] : i \in 1..Len(res.warnings) }
       IN
       /\ Len(res.warnings) = C28_Conditions
       /\ Cardinality(ws) = Len(res.warnings)
       /\ ("collateralization" \in ws)
            <=> (pool.collateralization_ratio < min_collateralization_ratio)
       /\ ("utilization" \in ws)
            <=> /\ pool.total_value_locked > 0
                /\ (pool.total_premiums_collected - pool.total_payouts_made)
                      * Percent > MaxUtilization * pool.total_value_locked
       /\ ("reserves" \in ws) <=> (pool.stablecoin_reserve < MinReserve)
       /\ (res.risk_level = "high") <=> (C28_Conditions >= 2)
       /\ (res.risk_level = "medium") <=> (C28_Conditions = 1)
       /\ (res.risk_level = "low") <=> (C28_Conditions = 0)
       /\ res.is_healthy <=> (C28_Conditions = 0)

\* CheckHealth ran on a pool exactly at all three thresholds (ratio 150,
\* utilization 80%, reserve at the floor): no warning, healthy, low risk.
C28_Witness ==
    /\ last.op = "CheckHealth" /\ last.result.found
    /\ pool.collateralization_ratio = min_collateralization_ratio
    /\ pool.total_value_locked = Percent
    /\ pool.total_premiums_collected - pool.total_payouts_made
         = MaxUtilization
    /\ pool.stablecoin_reserve = MinReserve
    /\ last.result.warnings = << >>
    /\ last.result.is_healthy
    /\ last.result.risk_level = "low"

\* ------------------------------------------------------------- SpecRead
\* The number of the four progress steps of get_claim_status a claim row
\* has completed.
completed_steps(cl) ==
    1 + (IF cl.fdc_request_id # 0 THEN 1 ELSE 0)
      + (IF cl.approved_at THEN 1 ELSE 0)
      + (IF cl.paid_at THEN 1 ELSE 0)

\* ClaimsEngine.get_claim_status(claim_id): ResourceNotFoundError when
\* there is no such claim.
GetClaimStatus(c) ==
    /\ IF c \notin ClaimIds
       THEN last' = [ NoCall EXCEPT !.op = "GetClaimStatus", !.claim = c,
                        !.ok = FALSE, !.raised = TRUE, !.err = "NotFound" ]
       ELSE last' = [ NoCall EXCEPT !.op = "GetClaimStatus", !.claim = c,
                        !.result =
                          [ found  |-> TRUE,
                            status |-> claims[c].status,
                            progress_percentage |->
                                (completed_steps(claims[c]) * Percent) \div 4,
                            fdc_verified  |-> claims[c].fdc_verified,
                            payout_amount |-> float(claims[c].payout_amount),
                            paid_at       |-> claims[c].paid_at,
                            error_message |-> claims[c].error_message ] ]
    /\ UNCHANGED <<pool, policies, claims, tasks>>

\* SpecRead: the operations of Spec together with the three queries.
NextRead ==
    \/ Next
    \/ \E c \in 1..(Len(claims) + 1) : GetClaimStatus(c)
    \/ \E pool_id \in {MainPool, AbsentPool} : GetStats(pool_id)
    \/ \E pool_id \in {MainPool, AbsentPool} : CheckHealth(pool_id)

SpecRead == Init /\ [][NextRead]_vars

\* C29: InitiateClaim, VerifyWithOracle, GetClaimStatus, GetStats and
\* CheckHealth leave every pool field unchanged; a step that changes a pool
\* field is a CreditPremium or a ProcessPayout (which calls DebitPayout).
C29_OnlyLedgerMutatesPool ==
    [][ /\ (last'.op \in {"InitiateClaim", "VerifyWithOracle",
                          "GetClaimStatus", "GetStats", "CheckHealth"})
             => pool' = pool
        /\ (pool' # pool) => last'.op \in {"CreditPremium", "ProcessPayout"}
      ]_vars

\* GetClaimStatus read a paid claim from a pool that still holds funds and
\* has made one payout.
C29_Witness ==
    /\ last.op = "GetClaimStatus" /\ last.result.found
    /\ last.result.status = "paid"
    /\ last.result.progress_percentage = Percent
    /\ pool.total_claims_paid = 1
    /\ pool.stablecoin_reserve >= 0
    /\ pool.total_payouts_made = claims[last.claim].payout_amount

\* C31: GetClaimStatus reports a progress in 0..100 that is 25 times the
\* number of completed milestones (initiated, oracle request submitted,
\* approved, paid), and the reported progress is 100 exactly when the
\* claim's status is Paid.
C31_ProgressFullIffPaid ==
    (last.op = "GetClaimStatus" /\ last.result.found)
    => LET cl == claims[last.claim]
           progress == last.result.progress_percentage
       IN
       /\ progress \in 0..100
       /\ progress = 25 * completed_steps(cl)
       /\ (progress = 100) <=> (cl.status = "paid")

\* --------------------------------------------------------- SpecNumbered
\* Two policies on the same flight, one per user, both Active; claim rows
\* carry their claim number.
NumberedPolicyIds == {1, 2}

\* The random part of a claim number, secrets.token_hex(3): one of
\* MaxSuffix values.
MaxSuffix == 3
Suffixes == 1..MaxSuffix

\* The "%y%m%d" part of the claim numbers of one day.
Today == "261103"

\* ClaimsEngine.generate_claim_number with the random part drawn.
generate_claim_number(random_part) ==
    [ prefix |-> "CLM", timestamp |-> Today, random_part |-> random_part ]

\* A claim_number column that accepts a number some row already carries.
NumberNeverTaken(rows, number) == FALSE

\* Claim.claim_number is unique: flushing a row whose number another row
\* (stored, or flushed earlier in the session) carries raises IntegrityError.
NumberTaken(rows, number) ==
    \E c \in DOMAIN rows : rows[c].claim_number = number

\* initiate_claim's Claim(...) row with its claim number.
NumberedClaim(p, user_id, random_part) ==
    [ claim_number |-> generate_claim_number(random_part) ]
        @@ NewClaim(p, policies[p], user_id)

\* create_claim route: initiate_claim, then commit.  The flush raises when
\* the generated number is taken, and nothing is committed.
InitiateClaimNumbered(p, user_id, random_part) ==
    LET err == InitiateError(p, user_id)
        rec == [ NoCall EXCEPT !.op = "InitiateClaim", !.policy = p,
                   !.user_id = user_id,
                   !.before = IF p \in DOMAIN policies
                              THEN policies[p].status ELSE "none" ]
    IN
    /\ IF err # "none"
       THEN /\ UNCHANGED <<policies, claims>>
            /\ last' = [ rec EXCEPT !.ok = FALSE, !.raised = TRUE,
                                    !.err = err ]
       ELSE IF NumberTaken(claims, generate_claim_number(random_part))
       THEN /\ UNCHANGED <<policies, claims>>
            /\ last' = [ rec EXCEPT !.ok = FALSE, !.raised = TRUE,
                                    !.err = "IntegrityError",
                                    !.result = [ found |-> FALSE,
                                                 random_part |-> random_part ] ]
       ELSE /\ claims' = Append(claims,
                                NumberedClaim(p, user_id, random_part))
            /\ policies' = [ policies EXCEPT ![p].status = "payout_pending" ]
            /\ last' = [ rec EXCEPT !.claim = Len(claims) + 1 ]
    /\ UNCHANGED <<pool, tasks>>

\* The session of flight_status_update after initiate_claim ran for the
\* policies in todo (in id order), each with its random part from parts:
\* the claim rows and policies it holds, and whether a flush raised.
RECURSIVE InitiateEach(_, _, _)
InitiateEach(todo, parts, session) ==
    IF todo = {} \/ session.raised THEN session
    ELSE LET p == CHOOSE q \in todo : \A r \in todo : q <= r
             number == generate_claim_number(parts[p])
         IN
         IF NumberTaken(session.claims, number)
         THEN [ session EXCEPT !.raised = TRUE ]
         ELSE InitiateEach(todo \ {p}, parts,
                [ session EXCEPT
                    !.claims = Append(@, [ claim_number |-> number ]
                        @@ NewClaim(p, policies[p], policies[p].user_id)),
                    !.policies[p].status = "payout_pending" ])

\* flight_status_update route: one initiate_claim for each Active policy
\* whose threshold the reported delay reaches, then one commit.
FlightStatusUpdate(delay, parts) ==
    LET active == { p \in DOMAIN policies : policies[p].status = "active" }
        todo == { p \in active :
                    delay # 0 /\ delay >= policies[p].delay_threshold_minutes }
        session == InitiateEach(todo, parts,
                     [ claims |-> claims, policies |-> policies,
                       raised |-> FALSE ])
        rec == [ NoCall EXCEPT !.op = "FlightStatusUpdate", !.delay = delay ]
    IN
    /\ IF active = {}
       THEN /\ UNCHANGED <<policies, claims>>
            /\ last' = [ rec EXCEPT !.err = "no_eligible_policies" ]
       ELSE IF session.raised
       THEN /\ UNCHANGED <<policies, claims>>
            /\ last' = [ rec EXCEPT !.ok = FALSE, !.raised = TRUE,
                                    !.err = "IntegrityError" ]
       ELSE /\ claims' = session.claims
            /\ policies' = session.policies
            /\ last' = rec
    /\ UNCHANGED <<pool, tasks>>

InitNumbered ==
    /\ pool = NewPool
    /\ policies = [ p \in NumberedPolicyIds |->
                      [ NewPolicy(p) EXCEPT !.status = "active" ] ]
    /\ claims = << >>
    /\ last = NoCall
    /\ tasks = << >>

NextNumbered ==
    \/ \E p \in NumberedPolicyIds \cup {AbsentPolicy}, u \in Users,
          random_part \in Suffixes :
            InitiateClaimNumbered(p, u, random_part)
    \/ \E delay \in Delays, parts \in [NumberedPolicyIds -> Suffixes] :
            FlightStatusUpdate(delay, parts)

SpecNumbered == InitNumbered /\ [][NextNumbered]_vars

\* C30: no two claim records carry the same claim number, every policy in
\* PayoutPending has a claim, and a call in which a generated number
\* collides stores no claim and moves no policy.
C30_ClaimNumbersUnique ==
    [][ /\ \A c1, c2 \in DOMAIN claims' :
              (claims'[c1].claim_number = claims'[c2].claim_number)
                  => c1 = c2
        /\ \A p \in DOMAIN policies' :
              (policies'[p].status = "payout_pending")
                  => \E c \in DOMAIN claims' : claims'[c].policy_id = p
        /\ (last'.err = "IntegrityError")
              => (last'.raised /\ UNCHANGED <<policies, claims, pool>>)
      ]_vars

\* The claim of policy 1 is stored; the owner of policy 2 initiated a claim
\* whose generated number was the one that claim carries: the call raised,
\* policy 2 is still Active and has no claim.
C30_Witness ==
    /\ last.op = "InitiateClaim" /\ last.err = "IntegrityError"
    /\ Len(claims) = 1
    /\ claims[1].claim_number = generate_claim_number(last.result.random_part)
    /\ claims[1].policy_id # last.policy
    /\ policies[last.policy].status = "active"
    /\ policies[claims[1].policy_id].status = "payout_pending"

\* ----------------------------------------------------------- SpecFlight
\* Policy.delay_threshold_minutes is an Integer column with no constraint
\* of its own (create_policy's schema admits 30..360); the policies of the
\* flight carry thresholds from 0 up to the largest delay reported.
Thresholds == 0..MaxDelay

\* The policies of one flight: each Pending or Active, with its threshold.
FlightPolicies ==
    [ NumberedPolicyIds ->
        [ status : {"pending", "active"}, threshold : Thresholds ] ]

InitFlight ==
    /\ pool = NewPool
    /\ \E f \in FlightPolicies :
          policies = [ p \in NumberedPolicyIds |->
                         [ NewPolicy(p) EXCEPT
                             !.status = f[p].status,
                             !.delay_threshold_minutes = f[p].threshold ] ]
    /\ claims = << >>
    /\ last = NoCall
    /\ tasks = << >>

NextFlight ==
    \/ \E delay \in Delays, parts \in [NumberedPolicyIds -> Suffixes] :
            FlightStatusUpdate(delay, parts)
    \/ \E p \in NumberedPolicyIds, u \in Users, random_part \in Suffixes :
            InitiateClaimNumbered(p, u, random_part)

SpecFlight == InitFlight /\ [][NextFlight]_vars

NumTasks == 2
Tasks == 1..NumTasks

NoRow == [ none |-> TRUE ]

IdleTask ==
    [ op |-> "idle", pc |-> "idle", arg |-> 0, user_id |-> 0,
      lpool |-> NoRow, lclaim |-> NoRow, locks |-> {},
      debited |-> 0, ret |-> "none" ]

\* The rows of the state the concurrent handlers start from: a pool after
\* n premium deposits, policy 1 Active, policy 2 PayoutPending with its
\* claim 1 Approved by the oracle.
RECURSIVE ConcPool(_)
ConcPool(n) ==
    IF n = 0 THEN NewPool
    ELSE deposit_premium(ConcPool(n - 1), NewPolicy(1).premium_amount)

ConcPolicies ==
    << [ NewPolicy(1) EXCEPT !.status = "active" ],
       [ NewPolicy(2) EXCEPT !.status = "payout_pending" ] >>

ConcClaims ==
    << [ NewClaim(2, NewPolicy(2), 2) EXCEPT !.status = "approved",
                                             !.fdc_request_id = 1,
                                             !.fdc_verified = TRUE,
                                             !.approved_at = TRUE ] >>

LockFree(t, rows) == \A u \in Tasks \ {t} : tasks[u].locks \cap rows = {}

\* A caller of PoolManager.process_payout(amount): the select of the pool
\* row, the sufficiency check and the debit of the session's copy.
DebitRead(t, amount) ==
    /\ tasks[t].pc = "idle"
    /\ LET r == PoolManager_process_payout(pool, amount) IN
       tasks' = [ tasks EXCEPT ![t] =
                    IF r.ok
                    THEN [ @ EXCEPT !.op = "debit", !.arg = amount,
                                    !.pc = "flush", !.lpool = r.pool,
                                    !.debited = amount ]
                    ELSE [ @ EXCEPT !.op = "debit", !.arg = amount,
                                    !.pc = "done", !.ret = r.err ] ]
    /\ UNCHANGED <<pool, policies, claims, last>>

\* create_claim route and ClaimsEngine.initiate_claim up to "await
\* db.flush()": the policy is read once, checked, and the claim and the new
\* policy status are pending in the session.
InitiateRead(t, p, user_id) ==
    /\ tasks[t].pc = "idle"
    /\ LET err == InitiateError(p, user_id) IN
       tasks' = [ tasks EXCEPT ![t] =
                    IF err = "none"
                    THEN [ @ EXCEPT !.op = "initiate", !.arg = p,
                                    !.user_id = user_id, !.pc = "flush",
                                    !.lclaim = NewClaim(p, policies[p], user_id) ]
                    ELSE [ @ EXCEPT !.op = "initiate", !.arg = p,
                                    !.user_id = user_id, !.pc = "done",
                                    !.ret = err ] ]
    /\ UNCHANGED <<pool, policies, claims, last>>

\* ClaimsEngine.process_payout up to the first "await db.flush()": the claim
\* is read, checked, and set to Processing in the session.
PayoutRead(t, c) ==
    /\ tasks[t].pc = "idle"
    /\ c \in ClaimIds
    /\ tasks' = [ tasks EXCEPT ![t] =
                    IF NotApproved(claims[c].status)
                    THEN [ @ EXCEPT !.op = "payout", !.arg = c,
                                    !.pc = "done", !.ret = "ValueError" ]
                    ELSE [ @ EXCEPT !.op = "payout", !.arg = c,
                                    !.pc = "flush_processing",
                                    !.lclaim = [ claims[c] EXCEPT
                                                   !.status = "processing" ] ] ]
    /\ UNCHANGED <<pool, policies, claims, last>>

\* The flush of claim.status = PROCESSING: UPDATE claims, taking the lock
\* of the claim row.
PayoutFlushProcessing(t) ==
    /\ tasks[t].pc = "flush_processing"
    /\ LockFree(t, {<<"claim", tasks[t].arg>>})
    /\ tasks' = [ tasks EXCEPT ![t].pc = "debit",
                               ![t].locks = @ \cup {<<"claim", tasks[t].arg>>} ]
    /\ UNCHANGED <<pool, policies, claims, last>>

\* pool_manager.process_payout inside ClaimsEngine.process_payout: the
\* select of the pool row, the check and the debit of the session's copy;
\* then claim.status = PAID, or the except branch with claim.status = FAILED.
PayoutDebit(t) ==
    /\ tasks[t].pc = "debit"
    /\ LET r == PoolManager_process_payout(pool, tasks[t].lclaim.payout_amount)
       IN tasks' = [ tasks EXCEPT ![t] =
                    IF r.ok
                    THEN [ @ EXCEPT !.pc = "flush", !.lpool = r.pool,
                                    !.debited = @ + tasks[t].lclaim.payout_amount,
                                    !.lclaim = [ @ EXCEPT !.status = "paid",
                                                          !.paid_at = TRUE ] ]
                    ELSE [ @ EXCEPT !.pc = "flush", !.ret = r.err,
                                    !.lclaim = [ @ EXCEPT !.status = "failed",
                                       !.error_message = "insufficient_funds" ] ] ]
    /\ UNCHANGED <<pool, policies, claims, last>>

\* The rows a task's pending writes touch.
RowsToWrite(t) ==
    LET k == tasks[t] IN
    IF k.op = "debit" THEN {<<"pool", MainPool>>}
    ELSE IF k.op = "initiate" THEN {<<"policy", k.arg>>}
    ELSE IF k.lclaim.status = "paid"
         THEN {<<"pool", MainPool>>, <<"claim", k.arg>>,
               <<"policy", k.lclaim.policy_id>>}
    ELSE {<<"claim", k.arg>>}

\* The last flush of a handler (for a payout, with the UPDATE of the policy
\* row before it): every row written is locked first.
Flush(t) ==
    /\ tasks[t].pc = "flush"
    /\ LockFree(t, RowsToWrite(t))
    /\ tasks' = [ tasks EXCEPT ![t].pc = "commit",
                               ![t].locks = @ \cup RowsToWrite(t) ]
    /\ UNCHANGED <<pool, policies, claims, last>>

\* The columns a flushed pool debit sets.
WritePool(l) ==
    [ pool EXCEPT !.stablecoin_reserve = l.stablecoin_reserve,
                  !.total_value_locked = l.total_value_locked,
                  !.total_payouts_made = l.total_payouts_made,
                  !.total_claims_paid  = l.total_claims_paid ]

\* The caller's commit: the session's writes reach the committed rows.
Commit(t) ==
    /\ tasks[t].pc = "commit"
    /\ LET k == tasks[t] IN
       /\ pool' = IF <<"pool", MainPool>> \in k.locks
                  THEN WritePool(k.lpool) ELSE pool
       /\ claims' =
            IF k.op = "initiate" THEN Append(claims, k.lclaim)
            ELSE IF k.op = "payout"
            THEN [ claims EXCEPT ![k.arg].status = k.lclaim.status,
                                 ![k.arg].paid_at = k.lclaim.paid_at,
                                 ![k.arg].error_message = k.lclaim.error_message ]
            ELSE claims
       /\ policies' =
            IF k.op = "initiate"
            THEN [ policies EXCEPT ![k.arg].status = "payout_pending" ]
            ELSE IF k.op = "payout" /\ k.lclaim.status = "paid"
            THEN [ policies EXCEPT
                     ![k.lclaim.policy_id].status = "paid",
                     ![k.lclaim.policy_id].payout_amount = k.lclaim.payout_amount,
                     ![k.lclaim.policy_id].paid_at = TRUE ]
            ELSE policies
       /\ tasks' = [ tasks EXCEPT ![t].pc = "done", ![t].locks = {},
                                  ![t].ret = IF k.ret = "none" THEN "ok"
                                             ELSE k.ret ]
    /\ UNCHANGED last

InitConc ==
    /\ \E n \in {1, 2} : pool = ConcPool(n)
    /\ policies = ConcPolicies
    /\ claims = ConcClaims
    /\ last = NoCall
    /\ tasks = [ t \in Tasks |-> IdleTask ]

NextConc ==
    \/ \E t \in Tasks, amount \in 1..MaxAmount : DebitRead(t, amount)
    \/ \E t \in Tasks, p \in {1, 2}, u \in Users : InitiateRead(t, p, u)
    \/ \E t \in Tasks, c \in ClaimIds : PayoutRead(t, c)
    \/ \E t \in Tasks : PayoutFlushProcessing(t)
    \/ \E t \in Tasks : PayoutDebit(t)
    \/ \E t \in Tasks : Flush(t)
    \/ \E t \in Tasks : Commit(t)

SpecConc == InitConc /\ [][NextConc]_vars

StartReserve == pool.total_premiums_collected

RECURSIVE SumDebited(_)
SumDebited(ts) ==
    IF ts = {} THEN 0
    ELSE LET t == CHOOSE x \in ts : TRUE
         IN tasks[t].debited + SumDebited(ts \ {t})

Succeeded(t) == tasks[t].pc = "done" /\ tasks[t].ret = "ok"

\* C1: the amounts of the process_payout calls that succeeded against the
\* pool sum to at most the stablecoin reserve the pool started with.
C1_NoOverdraft ==
    SumDebited({ t \in Tasks : Succeeded(t) }) <= StartReserve

\* C2: for every claim, at most one ProcessPayout call debits the pool for
\* it and moves it to Paid.
C2_PaidAtMostOnce ==
    \A c \in ClaimIds :
        Cardinality({ t \in Tasks : /\ tasks[t].op = "payout"
                                    /\ tasks[t].arg = c
                                    /\ Succeeded(t)
                                    /\ tasks[t].debited > 0 }) <= 1

\* C3: of the InitiateClaim calls for one policy at most one succeeds, and
\* the policy has at most one claim.
C3_OneInitiateSucceeds ==
    \A p \in DOMAIN policies :
        /\ Cardinality({ t \in Tasks : /\ tasks[t].op = "initiate"
                                       /\ tasks[t].arg = p
                                       /\ Succeeded(t) }) <= 1
        /\ Cardinality({ c \in ClaimIds : claims[c].policy_id = p }) <= 1

\* ----------------------------------------------------------- SpecRoutes
\* The policy routes as concurrent tasks, each in its own session: the
\* select of the policy and the check of its status are one step, the
\* commit that writes the new status another.
RouteStatus(op) == IF op = "activate" THEN "active" ELSE "cancelled"

\* activate_policy and cancel_policy up to "await db.commit()": the policy
\* is selected by id and owner, its status checked and the new status set
\* on the session's copy.
RouteRead(t, op, p, user_id) ==
    /\ tasks[t].pc = "idle"
    /\ LET err == IF p \notin DOMAIN policies THEN "NotFound"
                  ELSE IF policies[p].user_id # user_id THEN "NotFound"
                  ELSE IF NotPending(policies[p].status) THEN "BadRequest"
                  ELSE "none"
       IN tasks' = [ tasks EXCEPT ![t] =
                    IF err = "none"
                    THEN [ @ EXCEPT !.op = op, !.arg = p,
                                    !.user_id = user_id, !.pc = "commit" ]
                    ELSE [ @ EXCEPT !.op = op, !.arg = p,
                                    !.user_id = user_id, !.pc = "done",
                                    !.ret = err ] ]
    /\ UNCHANGED <<pool, policies, claims, last>>

\* "await db.commit()" of a policy route: UPDATE policies SET status = the
\* new status WHERE id = the policy's id, and the commit.
RouteCommit(t) ==
    /\ tasks[t].pc = "commit"
    /\ tasks[t].op \in {"activate", "cancel"}
    /\ LET k == tasks[t] IN
       /\ policies' = [ policies EXCEPT ![k.arg].status = RouteStatus(k.op) ]
       /\ last' = [ NoCall EXCEPT
                      !.op = IF k.op = "activate" THEN "ActivatePolicy"
                             ELSE "CancelPolicy",
                      !.policy = k.arg, !.user_id = k.user_id,
                      !.before = policies[k.arg].status ]
       /\ tasks' = [ tasks EXCEPT ![t].pc = "done", ![t].ret = "ok" ]
    /\ UNCHANGED <<pool, claims>>

InitRoutes ==
    /\ pool = NewPool
    /\ policies = InitPolicies
    /\ claims = << >>
    /\ last = NoCall
    /\ tasks = [ t \in Tasks |-> IdleTask ]

NextRoutes ==
    \/ \E t \in Tasks, op \in {"activate", "cancel"},
          p \in PolicyIds \cup {AbsentPolicy}, u \in Users :
            RouteRead(t, op, p, u)
    \/ \E t \in Tasks : RouteCommit(t)
    \/ \E p \in PolicyIds, u \in Users : InitiateClaim(p, u)

SpecRoutes == InitRoutes /\ [][NextRoutes]_vars

\* C37: a policy becomes Active only from Pending and Cancelled only from
\* Pending; an Active policy never becomes Cancelled; a Cancelled policy
\* stays Cancelled and no claim is initiated on it; an activation or
\* cancellation that raises leaves the status unchanged.
C37_ActivateCancelOnlyFromPending ==
    [][ /\ \A p \in DOMAIN policies :
              /\ (policies'[p].status # policies[p].status
                    /\ policies'[p].status \in {"active", "cancelled"})
                   => policies[p].status = "pending"
              /\ (policies[p].status = "active")
                   => policies'[p].status # "cancelled"
              /\ (policies[p].status = "cancelled")
                   => /\ policies'[p].status = "cancelled"
                      /\ ClaimsOf(claims', p) = ClaimsOf(claims, p)
        /\ (last'.op \in {"ActivatePolicy", "CancelPolicy"} /\ last'.raised)
              => policies' = policies ]_vars

\* ------------------------------------------------------------- SpecPoll
\* One ClaimsEngine.verify_claim_with_fdc call on the engine, one step per
\* await, with the polling loop of FDCClient.poll_until_finalized and the
\* clock it reads.  tasks[1] is the call: its position, the claim row its
\* session holds, the request id, the clock and the deadline (in seconds
\* since the loop was entered), the polls made and how the oracle ended.
\* Every awaited oracle call returns or raises.
TimeoutSeconds == 180
PollInterval == 10
MaxLatency == 1

\* The most polls the loop can make: poll k starts no earlier than
\* (k - 1) * PollInterval and only before the deadline.
MaxPolls == (TimeoutSeconds + PollInterval - 1) \div PollInterval

\* get_request_status: the values of status_map, "unknown" for any other
\* code, or an FDCAttestationError ("error").
RequestStatuses ==
    {"pending", "submitted", "voting", "finalized", "failed", "unknown"}
PollResults == RequestStatuses \cup {"error"}

\* get_proof: raises, or returns the root and a proof list.
ProofResults ==
    [ ok : {TRUE}, proof : Proofs ] \cup [ ok : {FALSE}, proof : {<< >>} ]

IdleCall ==
    [ pc |-> "idle", claim |-> 0, before |-> "none", lclaim |-> NoRow,
      request_id |-> 0, now |-> 0, deadline |-> 0, polls |-> 0,
      outcome |-> "none" ]

\* A loop condition without the deadline.
NoDeadline(now, deadline) == TRUE

\* poll_until_finalized: "while datetime.now(timezone.utc) < deadline".
BeforeDeadline(now, deadline) == now < deadline

\* The clock after dt more seconds.  The code only compares the clock with
\* the deadline, so a clock past the deadline is kept at the deadline.
Advance(now, dt, deadline) ==
    IF now + dt > deadline THEN deadline ELSE now + dt

\* One more poll; counts above MaxPolls are kept as MaxPolls + 1.
CountPoll(polls) == IF polls > MaxPolls THEN polls ELSE polls + 1

\* A submission that does not store the request id on the claim.
SubmittedNotStored(cl, request_id) == cl

\* verify_claim_with_fdc: "claim.fdc_request_id = request_id", flushed
\* before the wait.
Submitted(cl, request_id) == [ cl EXCEPT !.fdc_request_id = request_id ]

\* verify_claim_with_fdc, "except FDCAttestationError".
FailedVerification(cl, msg) ==
    [ cl EXCEPT !.status = "failed", !.error_message = msg ]

\* verify_claim_with_fdc up to the flush of claim.status = VERIFYING.
PollVerifyStart(c) ==
    /\ tasks[1].pc = "idle"
    /\ IF c \notin ClaimIds
       THEN /\ tasks' = << [ IdleCall EXCEPT !.pc = "done", !.claim = c,
                                             !.outcome = "not_found" ] >>
            /\ last' = [ NoCall EXCEPT !.op = "VerifyWithOracle", !.claim = c,
                           !.ok = FALSE, !.raised = TRUE, !.err = "NotFound" ]
       ELSE /\ tasks' = << [ IdleCall EXCEPT
                               !.pc = "submit", !.claim = c,
                               !.before = claims[c].status,
                               !.lclaim = [ claims[c] EXCEPT
                                              !.status = "verifying" ] ] >>
            /\ UNCHANGED last
    /\ UNCHANGED <<pool, policies, claims>>

\* submit_request: raises FDCAttestationError, or returns the request id,
\* which is stored on the claim and flushed; then poll_until_finalized is
\* entered and computes its deadline.
PollSubmit(ok) ==
    /\ tasks[1].pc = "submit"
    /\ tasks' = IF ok
                THEN [ tasks EXCEPT
                         ![1].pc = "poll_check",
                         ![1].request_id = tasks[1].claim,
                         ![1].lclaim = Submitted(@, tasks[1].claim),
                         ![1].now = 0,
                         ![1].deadline = TimeoutSeconds ]
                ELSE [ tasks EXCEPT
                         ![1].pc = "commit",
                         ![1].outcome = "submit_error",
                         ![1].lclaim = FailedVerification(@, "FDC Error") ]
    /\ UNCHANGED <<pool, policies, claims, last>>

\* The loop condition; past the deadline the loop is left and
\* FDCAttestationError("... did not finalize within ...") is raised.
PollCheck ==
    /\ tasks[1].pc = "poll_check"
    /\ tasks' = IF BeforeDeadline(tasks[1].now, tasks[1].deadline)
                THEN [ tasks EXCEPT ![1].pc = "poll_call" ]
                ELSE [ tasks EXCEPT
                         ![1].pc = "commit",
                         ![1].outcome = "timeout",
                         ![1].lclaim = FailedVerification(@, "FDC Error") ]
    /\ UNCHANGED <<pool, policies, claims, last>>

\* One get_request_status call, which takes latency seconds, and the two
\* tests of its result.
PollCall(result, latency) ==
    /\ tasks[1].pc = "poll_call"
    /\ LET k == [ tasks[1] EXCEPT
                    !.now = Advance(@, latency, tasks[1].deadline),
                    !.polls = CountPoll(@) ]
       IN tasks' =
            << IF result = "finalized"
               THEN [ k EXCEPT !.pc = "proof" ]
               ELSE IF result = "failed"
               THEN [ k EXCEPT !.pc = "commit", !.outcome = "failed",
                          !.lclaim = FailedVerification(@, "FDC Error") ]
               ELSE IF result = "error"
               THEN [ k EXCEPT !.pc = "commit", !.outcome = "status_error",
                          !.lclaim = FailedVerification(@, "FDC Error") ]
               ELSE [ k EXCEPT !.pc = "sleep" ] >>
    /\ UNCHANGED <<pool, policies, claims, last>>

\* "await asyncio.sleep(poll_interval)": at least poll_interval seconds.
PollSleep(extra) ==
    /\ tasks[1].pc = "sleep"
    /\ tasks' = [ tasks EXCEPT
                    ![1].pc = "poll_check",
                    ![1].now = Advance(@, PollInterval + extra,
                                       tasks[1].deadline) ]
    /\ UNCHANGED <<pool, policies, claims, last>>

\* get_proof, get_response_data and verify_proof after the finalized poll,
\* and the assignments that follow.
PollProof(pr) ==
    /\ tasks[1].pc = "proof"
    /\ tasks' =
         IF ~pr.ok
         THEN [ tasks EXCEPT
                  ![1].pc = "commit", ![1].outcome = "proof_error",
                  ![1].lclaim = FailedVerification(@, "FDC Error") ]
         ELSE IF verify_proof(MerkleRoot, pr.proof)
         THEN [ tasks EXCEPT
                  ![1].pc = "commit", ![1].outcome = "finalized",
                  ![1].lclaim = [ @ EXCEPT !.status = "approved",
                                           !.fdc_verified = TRUE,
                                           !.approved_at = TRUE ] ]
         ELSE [ tasks EXCEPT
                  ![1].pc = "commit", ![1].outcome = "finalized",
                  ![1].lclaim = [ @ EXCEPT
                      !.status = "rejected",
                      !.fdc_verified = FALSE,
                      !.rejection_reason = "proof_verification_failed",
                      !.reason_values = << >> ] ]
    /\ UNCHANGED <<pool, policies, claims, last>>

\* The last flush of the call, its return and the caller's commit.
PollCommit ==
    /\ tasks[1].pc = "commit"
    /\ LET k == tasks[1] IN
       /\ claims' = [ claims EXCEPT ![k.claim] = k.lclaim ]
       /\ last' = [ NoCall EXCEPT
                      !.op = "VerifyWithOracle", !.claim = k.claim,
                      !.before = k.before, !.oracle = k.outcome,
                      !.valid = (k.lclaim.status = "approved"),
                      !.ok = (k.lclaim.status = "approved"),
                      !.err = IF k.lclaim.status = "failed"
                              THEN k.lclaim.error_message
                              ELSE IF k.lclaim.status = "rejected"
                              THEN "Verification failed" ELSE "none" ]
       /\ tasks' = [ tasks EXCEPT ![1].pc = "done" ]
    /\ UNCHANGED <<pool, policies>>

InitPoll ==
    /\ pool = NewPool
    /\ policies = [ p \in PolicyIds |->
                      [ NewPolicy(1) EXCEPT !.status = "payout_pending" ] ]
    /\ claims = << NewClaim(1, NewPolicy(1), 1) >>
    /\ last = NoCall
    /\ tasks = << IdleCall >>

\* The steps of a call that has started.
PollStep ==
    \/ \E ok \in BOOLEAN : PollSubmit(ok)
    \/ PollCheck
    \/ \E result \in PollResults, latency \in 0..MaxLatency :
            PollCall(result, latency)
    \/ \E extra \in 0..MaxLatency : PollSleep(extra)
    \/ \E pr \in ProofResults : PollProof(pr)
    \/ PollCommit

NextPoll ==
    \/ \E c \in 1..(Len(claims) + 1) : PollVerifyStart(c)
    \/ PollStep

SpecPoll == InitPoll /\ [][NextPoll]_vars

\* The event loop resumes a coroutine whose await has completed.
SpecPollFair == InitPoll /\ [][NextPoll]_vars /\ WF_vars(PollStep)

\* C19: when the wait for finalization times out, or a poll reports the
\* request failed, the claim ends Failed with an error message stored and
\* with the request id that was stored on it at submission: during the
\* whole wait the claim row of the session carries that request id.
C19_FailureKeepsRequestId ==
    LET k == tasks[1] IN
    /\ k.pc \in {"poll_check", "poll_call", "sleep"}
         => /\ k.request_id # 0
            /\ k.lclaim.fdc_request_id = k.request_id
    /\ (k.pc = "done" /\ k.outcome \in {"timeout", "failed"})
         => /\ claims[k.claim].status = "failed"
            /\ claims[k.claim].error_message # "none"
            /\ k.request_id # 0
            /\ claims[k.claim].fdc_request_id = k.request_id

\* After some polls that found the request pending, a poll reported it
\* failed: the claim is Failed and carries the request id.
C19_Witness ==
    /\ tasks[1].pc = "done" /\ tasks[1].outcome = "failed"
    /\ tasks[1].polls >= 2
    /\ tasks[1].now < tasks[1].deadline
    /\ claims[1].status = "failed"
    /\ claims[1].fdc_request_id = tasks[1].request_id
    /\ last.op = "VerifyWithOracle" /\ last.err = "FDC Error"

\* C20: every VerifyWithOracle call that has started reaches its end; at the
\* end the claim is Approved or Rejected (a poll reported finalized) or
\* Failed (a poll reported failed or raised, the deadline passed, or the
\* submission or the proof retrieval raised), and no committed claim is
\* Verifying; the loop makes at most MaxPolls polls, whatever the oracle
\* returns.
C20_VerifyTerminates ==
    /\ (tasks[1].pc # "idle") ~> (tasks[1].pc = "done")
    /\ [] ( /\ tasks[1].polls <= MaxPolls
            /\ \A c \in ClaimIds : claims[c].status # "verifying"
            /\ (tasks[1].pc = "done" /\ tasks[1].claim \in ClaimIds)
                 => LET st == claims[tasks[1].claim].status IN
                    /\ st \in {"approved", "rejected", "failed"}
                    /\ (tasks[1].outcome = "finalized")
                         <=> (st \in {"approved", "rejected"}) )

\* The oracle never finalized: the call made MaxPolls polls, the deadline
\* passed and the claim is Failed.
C20_Witness ==
    /\ tasks[1].pc = "done" /\ tasks[1].outcome = "timeout"
    /\ tasks[1].polls = MaxPolls
    /\ tasks[1].now = tasks[1].deadline
    /\ claims[1].status = "failed"
    /\ claims[1].error_message = "FDC Error"

====
